---- MODULE Spec2Model ----
(***************************************************************************)
(* Firefox bookmark search: the Streamlit script src/app.py (index cache,   *)
(* query, pagination, rebuild) and the bookmark reader src/bookmarks.py     *)
(* (profile locator, SQL extractor).                                        *)
(*                                                                          *)
(* Three specifications share the variables:                                *)
(*   Spec         the script of app.py, one action per section of a run     *)
(*   LocatorSpec  find_default_firefox_profile, one action per loop turn    *)
(*   ExtractSpec  get_firefox_bookmarks_from_sqlite, one action per step    *)
(***************************************************************************)
EXTENDS Integers, Sequences, FiniteSets, TLC

VARIABLES
    \* ---- app.py ----
    disk,      \* the data directory: DATA_DIR and the three files under it
    memo,      \* st.cache_resource's entry for init_index
    session,   \* st.session_state
    query,     \* the value of the text input widget
    pc,        \* where the script run is
    run,       \* the interaction that started the run
    view,      \* what the run has rendered so far
    last,      \* the most recent call of init_index (history)
    calls,     \* the first calls of init_index of this process (history)
    pages,     \* displayed counts of a streak of Load More runs (history)
    \* ---- bookmarks.py: find_default_firefox_profile ----
    profiles, loc,
    \* ---- bookmarks.py: get_firefox_bookmarks_from_sqlite ----
    db, ext

appVars == <<disk, memo, session, query, pc, run, view, last, calls, pages>>
locVars == <<profiles, loc>>
extVars == <<db, ext>>
vars == <<disk, memo, session, query, pc, run, view, last, calls, pages,
          profiles, loc, db, ext>>

(***************************************************************************)
(* Bounds                                                                   *)
(***************************************************************************)
MaxBookmarks == 3     \* bookmarks in the browser / records in a persisted file
MaxShown == 30        \* the user takes results_shown no higher than this
MaxProfiles == 3      \* directories under Profiles
MaxRows == 2          \* rows of moz_bookmarks
MaxPlaces == 2        \* ids of moz_places

(***************************************************************************)
(* Program constants                                                        *)
(***************************************************************************)
DefaultShown == 10    \* app.py:70
PageSize == 10        \* app.py:129
Prefetch == 10        \* app.py:109
SliderMin == 5        \* app.py:91
SliderMax == 50       \* app.py:92
SliderStep == 5       \* app.py:94
EmbDim == 384         \* all-MiniLM-L6-v2, app.py:36
MinSize == 102400     \* 100 * 1024, bookmarks.py:34

(***************************************************************************)
(* Python values                                                            *)
(***************************************************************************)
None == [none |-> TRUE, v |-> <<>>]
Some(x) == [none |-> FALSE, v |-> x]

Min(a, b) == IF a < b THEN a ELSE b

\* list[idx] of Python: a negative idx counts from the end; out of range raises.
PyIndexOk(list, idx) == idx < Len(list) /\ idx >= 0 - Len(list)
PyIndex(list, idx) == IF idx >= 0 THEN list[idx + 1] ELSE list[Len(list) + idx + 1]

(***************************************************************************)
(* Bookmarks, titles, the embedding model and the flat L2 index             *)
(***************************************************************************)
Title(b) == <<"title", b>>
Url(b) == <<"url", b>>
Bookmark(b) == [id |-> b, title |-> Title(b), url |-> Url(b)]

\* model.encode of one text: a deterministic vector (one coordinate here).
Encode(text) == <<2 * text[2] + (IF text[1] = "query" THEN 1 ELSE 0)>>
EncodeAll(texts) == [i \in 1..Len(texts) |-> Encode(texts[i])]

\* squared Euclidean distance, as IndexFlatL2 reports it
L2(a, b) == (a[1] - b[1]) * (a[1] - b[1])

\* IndexFlatL2.search(q, k): the labels of the k nearest vectors, nearest first,
\* 0-based; when the index holds fewer than k vectors the rest is padded with -1.
RECURSIVE Nearest(_, _, _)
Nearest(index, q, S) ==
    IF S = {} THEN <<>>
    ELSE LET i == CHOOSE x \in S : \A y \in S :
                     \/ L2(index[x], q) < L2(index[y], q)
                     \/ (L2(index[x], q) = L2(index[y], q) /\ x <= y)
         IN <<i - 1>> \o Nearest(index, q, S \ {i})

search(index, q, k) ==
    LET found == Nearest(index, q, 1..Len(index))
    IN [i \in 1..k |-> IF i <= Len(found) THEN found[i] ELSE -1]

(***************************************************************************)
(* app.py: the persisted snapshot                                           *)
(***************************************************************************)
FileNames == {"index.faiss", "meta.pkl", "embeddings.npy"}

\* shutil.rmtree(DATA_DIR, ignore_errors=True)
rmtree(d) == [dir |-> FALSE, files |-> {}, index |-> <<>>, titles |-> <<>>,
              urls |-> <<>>, embeddings |-> <<>>]

save_vector_db(d, index, titles, urls, embeddings) ==
    [dir |-> TRUE, files |-> FileNames, index |-> index, titles |-> titles,
     urls |-> urls, embeddings |-> embeddings]

AllFilesExist(d) == \A p \in FileNames : p \in d.files

load_vector_db_two_files(d) ==
    IF ~({"index.faiss", "meta.pkl"} \subseteq d.files)
    THEN [index |-> None, titles |-> None, urls |-> None, embeddings |-> None]
    ELSE [index |-> Some(d.index), titles |-> Some(d.titles),
          urls |-> Some(d.urls), embeddings |-> Some(d.embeddings)]

load_vector_db(d) ==
    IF ~AllFilesExist(d)
    THEN [index |-> None, titles |-> None, urls |-> None, embeddings |-> None]
    ELSE [index |-> Some(d.index), titles |-> Some(d.titles),
          urls |-> Some(d.urls), embeddings |-> Some(d.embeddings)]

\* the components of a snapshot agree in length
LengthsAgree(d) ==
    /\ Len(d.index) = Len(d.titles)
    /\ Len(d.titles) = Len(d.urls)
    /\ Len(d.urls) = Len(d.embeddings)

\* bool(ndarray == None): numpy compares elementwise, and the truth value of the
\* resulting array is an error when it has more than one element; for an empty
\* array it is False or an error, depending on the numpy release.
ArrayEqNoneTruth(size) ==
    IF size > 1 THEN {"ValueError"}
    ELSE IF size = 1 THEN {"False"}
    ELSE {"False", "ValueError"}

\* `None not in (index, titles, urls, embeddings)`: the tuple is scanned in order;
\* an element that is None ends the scan (identity), the index object and the two
\* lists compare unequal to None, the embeddings array is compared with ==.
NoneNotIn(t) ==
    IF t.index.none \/ t.titles.none \/ t.urls.none \/ t.embeddings.none
    THEN {"False"}
    ELSE { IF r = "False" THEN "True" ELSE r :
             r \in ArrayEqNoneTruth(Len(t.embeddings.v) * EmbDim) }

(***************************************************************************)
(* app.py: init_index                                                       *)
(***************************************************************************)
NoResult == [index |-> <<>>, titles |-> <<>>, urls |-> <<>>, embeddings |-> <<>>]

\* what get_firefox_bookmarks() can do: raise, or return the browser's bookmarks
SourceList(n) == [i \in 1..n |-> Bookmark(i)]
SourceOutcomes ==
    {[ok |-> TRUE, exc |-> "", rows |-> SourceList(n)] : n \in 0..MaxBookmarks}
    \cup {[ok |-> FALSE, exc |-> e, rows |-> <<>>] :
            e \in {"FileNotFoundError", "RuntimeError"}}

Outcome(path, exc, extracted, encoded, saved, d, result) ==
    [path |-> path, raised |-> exc # "", exc |-> exc, extracted |-> extracted,
     encoded |-> encoded, saved |-> saved, disk |-> d, result |-> result]

\* lines 42-51
ColdBuild(d, src) ==
    IF ~src.ok THEN Outcome("cold", src.exc, TRUE, FALSE, FALSE, d, NoResult)
    ELSE LET titles == [i \in 1..Len(src.rows) |-> src.rows[i].title]
             urls == [i \in 1..Len(src.rows) |-> src.rows[i].url]
             embeddings == EncodeAll(titles)
         IN IF Len(titles) = 0
            \* encode([]) is an array of shape (0,): embeddings.shape[1] raises
            THEN Outcome("cold", "IndexError", TRUE, TRUE, FALSE, d, NoResult)
            ELSE Outcome("cold", "", TRUE, TRUE, TRUE,
                         save_vector_db(d, embeddings, titles, urls, embeddings),
                         [index |-> embeddings, titles |-> titles, urls |-> urls,
                          embeddings |-> embeddings])

\* lines 35-51: the body of init_index
InitIndexBody(d, src) ==
    LET t == load_vector_db(d)
    IN { IF test = "ValueError"
         THEN Outcome("warm", "ValueError", FALSE, FALSE, FALSE, d, NoResult)
         ELSE IF test = "True"
         THEN Outcome("warm", "", FALSE, FALSE, FALSE, d,
                      [index |-> t.index.v, titles |-> t.titles.v,
                       urls |-> t.urls.v, embeddings |-> t.embeddings.v])
         ELSE ColdBuild(d, src) : test \in NoneNotIn(t) }

\* st.cache_resource.clear()
NoMemo == [set |-> FALSE, value |-> NoResult]
cache_clear_kept(m) == m
cache_clear(m) == NoMemo

\* @st.cache_resource: a stored value is returned without running the body; a
\* call that raises stores nothing.
init_index(m, d, src) ==
    IF m.set THEN {Outcome("memo", "", FALSE, FALSE, FALSE, d, m.value)}
    ELSE InitIndexBody(d, src)

MemoAfter(m, o) == IF o.raised THEN m ELSE [set |-> TRUE, value |-> o.result]

(***************************************************************************)
(* app.py: the script. A run starts on an interaction (or on st.rerun) and   *)
(* executes the sections top to bottom.                                      *)
(***************************************************************************)
NoQuery == <<"query", 0>>          \* the empty text input
Queries == {<<"query", p>> : p \in {1, MaxBookmarks}}

NoSession == [has |-> FALSE, results_shown |-> 0]
NoView == [error |-> FALSE, sections |-> {}, widgets |-> {}, shown |-> <<>>,
           fetched |-> 0]
NoCall == [valid |-> FALSE, afterRebuild |-> FALSE, filesAll |-> FALSE,
           agree |-> FALSE, path |-> "", raised |-> FALSE, exc |-> "", extracted |-> FALSE,
           encoded |-> FALSE, saved |-> FALSE, result |-> NoResult]

Buttons == {"load_more", "viz_results", "viz_all", "rebuild"}

\* the values the "Results to show" slider offers; the widget widens its range to
\* hold a value above max_value
SliderValues(shown) ==
    {v \in SliderMin..(IF shown > SliderMax THEN shown ELSE SliderMax) :
       (v - SliderMin) % SliderStep = 0}

TopLevelHandler_no_stop(o) ==
    [error |-> o.raised, next |-> "settings"]

\* lines 76-78 / 75: the except branch reports and stops the run
TopLevelHandler(o) ==
    IF o.raised THEN [error |-> TRUE, next |-> "idle"]
    ELSE [error |-> FALSE, next |-> "settings"]

\* line 109
ResultsToFetch(shown) == shown + Prefetch
LoadMoreShown_half(shown) == shown + SliderStep
\* line 129
LoadMoreShown(shown) == shown + PageSize
\* line 115
CountToShow(I, shown) == Min(Len(I), shown)

\* a user interaction (or opening the page) starts a run; a widget can be used
\* only if the previous run rendered it
StartRun ==
    /\ UNCHANGED <<profiles, loc, db, ext>>
    /\ pc = "idle"
    /\ \E q \in Queries \cup {NoQuery, query},
          b \in Buttons \cup {"none"},
          m \in {v \in SliderValues(session.results_shown) : v <= MaxShown}
                \cup {0} :
        /\ q # query => ("query" \in view.widgets /\ b = "none" /\ m = 0)
        /\ b # "none" => (b \in view.widgets /\ m = 0)
        /\ m # 0 => ("slider" \in view.widgets /\ m # session.results_shown)
        /\ b = "load_more" => LoadMoreShown(session.results_shown) <= MaxShown
        /\ query' = q
        /\ run' = [clicked |-> b, moved |-> m, cause |-> "user"]
    /\ pc' = "top"
    /\ view' = NoView
    /\ last' = NoCall
    /\ UNCHANGED <<disk, memo, session, calls, pages>>

\* lines 69-78
TopInit ==
    /\ UNCHANGED <<profiles, loc, db, ext>>
    /\ pc = "top"
    /\ \E src \in SourceOutcomes : \E o \in init_index(memo, disk, src) :
        LET h == TopLevelHandler(o)
            call == [valid |-> TRUE, afterRebuild |-> run.cause = "rebuild",
                     filesAll |-> AllFilesExist(disk),
                     agree |-> LengthsAgree(disk), path |-> o.path,
                     raised |-> o.raised, exc |-> o.exc,
                     extracted |-> o.extracted, encoded |-> o.encoded,
                     saved |-> o.saved, result |-> o.result]
        IN /\ disk' = o.disk
           /\ memo' = MemoAfter(memo, o)
           /\ last' = call
           /\ calls' = IF Len(calls) < 2 THEN Append(calls, call) ELSE calls
           /\ view' = [view EXCEPT !.error = h.error]
           /\ pc' = h.next
    /\ session' = IF session.has THEN session
                  ELSE [has |-> TRUE, results_shown |-> DefaultShown]
    /\ UNCHANGED <<query, run, pages>>

\* lines 83-97
Settings ==
    /\ UNCHANGED <<profiles, loc, db, ext>>
    /\ pc = "settings"
    /\ LET value == IF run.moved # 0 THEN run.moved ELSE session.results_shown
       IN session' = IF value # session.results_shown
                     THEN [session EXCEPT !.results_shown = value]
                     ELSE session
    /\ view' = [view EXCEPT !.sections = @ \cup {"settings"},
                            !.widgets = @ \cup {"slider"}]
    /\ pc' = "search"
    /\ UNCHANGED <<disk, memo, query, run, last, calls, pages>>

\* line 102 and line 107 with an empty query
SearchSkip ==
    /\ UNCHANGED <<profiles, loc, db, ext>>
    /\ pc = "search"
    /\ query = NoQuery
    /\ view' = [view EXCEPT !.widgets = @ \cup {"query"}]
    /\ pages' = <<>>
    /\ pc' = "tail"
    /\ UNCHANGED <<disk, memo, session, query, run, last, calls>>

\* lines 102-123 and the buttons of lines 125-132
Search ==
    /\ UNCHANGED <<profiles, loc, db, ext>>
    /\ pc = "search"
    /\ query # NoQuery
    /\ LET titles == memo.value.titles
           urls == memo.value.urls
           I == search(memo.value.index, Encode(query),
                       ResultsToFetch(session.results_shown))
           count_to_show == CountToShow(I, session.results_shown)
           ok == \A i \in 1..count_to_show : PyIndexOk(titles, I[i])
                                             /\ PyIndexOk(urls, I[i])
       IN /\ ok
          /\ view' = [view EXCEPT
                 !.sections = @ \cup {"search"},
                 !.fetched = Len(I),
                 !.shown = [i \in 1..count_to_show |->
                              [idx |-> I[i], title |-> PyIndex(titles, I[i]),
                               url |-> PyIndex(urls, I[i])]],
                 !.widgets = @ \cup {"query", "viz_results"}
                             \cup (IF count_to_show < Len(I)
                                   THEN {"load_more"} ELSE {})]
          /\ pages' = IF run.cause = "load_more"
                      THEN Append(pages, count_to_show)
                      ELSE IF run.clicked = "load_more" THEN pages
                      ELSE <<count_to_show>>
    /\ pc' = "more"
    /\ UNCHANGED <<disk, memo, session, query, run, last, calls>>

\* lines 128-130
LoadMore ==
    /\ UNCHANGED <<profiles, loc, db, ext>>
    /\ pc = "more"
    /\ run.clicked = "load_more"
    /\ session' = [session EXCEPT !.results_shown = LoadMoreShown(@)]
    /\ run' = [clicked |-> "none", moved |-> 0, cause |-> "load_more"]
    /\ view' = NoView
    /\ pc' = "top"
    /\ UNCHANGED <<disk, memo, query, last, calls, pages>>

\* lines 132-134
VisualizeResults ==
    /\ UNCHANGED <<profiles, loc, db, ext>>
    /\ pc = "more"
    /\ run.clicked = "viz_results"
    /\ view' = [view EXCEPT !.sections = @ \cup {"wordcloud_results"}]
    /\ pc' = "tail"
    /\ UNCHANGED <<disk, memo, session, query, run, last, calls, pages>>

NoSearchButton ==
    /\ UNCHANGED <<profiles, loc, db, ext>>
    /\ pc = "more"
    /\ run.clicked \notin {"load_more", "viz_results"}
    /\ pc' = "tail"
    /\ UNCHANGED <<disk, memo, session, query, run, view, last, calls, pages>>

\* lines 139-140, then line 145 not clicked
VisualizeAll ==
    /\ UNCHANGED <<profiles, loc, db, ext>>
    /\ pc = "tail"
    /\ run.clicked = "viz_all"
    /\ view' = [view EXCEPT !.sections = @ \cup {"wordcloud_all"},
                            !.widgets = @ \cup {"viz_all", "rebuild"}]
    /\ pc' = "idle"
    /\ UNCHANGED <<disk, memo, session, query, run, last, calls, pages>>

\* lines 145-149
Rebuild ==
    /\ UNCHANGED <<profiles, loc, db, ext>>
    /\ pc = "tail"
    /\ run.clicked = "rebuild"
    /\ disk' = rmtree(disk)
    /\ session' = NoSession
    /\ memo' = cache_clear(memo)
    /\ run' = [clicked |-> "none", moved |-> 0, cause |-> "rebuild"]
    /\ view' = NoView
    /\ calls' = <<>>
    /\ pages' = <<>>
    /\ pc' = "top"
    /\ UNCHANGED <<query, last>>

\* lines 139 and 145, neither button clicked: the run ends
EndRun ==
    /\ UNCHANGED <<profiles, loc, db, ext>>
    /\ pc = "tail"
    /\ run.clicked \notin {"viz_all", "rebuild"}
    /\ view' = [view EXCEPT !.widgets = @ \cup {"viz_all", "rebuild"}]
    /\ pc' = "idle"
    /\ UNCHANGED <<disk, memo, session, query, run, last, calls, pages>>

\* the server process is started again: the memoized value and the sessions are
\* gone, the data directory stays
Restart ==
    /\ UNCHANGED <<profiles, loc, db, ext>>
    /\ pc = "idle"
    /\ memo' = NoMemo
    /\ session' = NoSession
    /\ query' = NoQuery
    /\ view' = NoView
    /\ calls' = <<>>
    /\ pages' = <<>>
    /\ last' = NoCall
    /\ UNCHANGED <<disk, pc, run>>

\* the page is opened in a new browser session
NewSession ==
    /\ UNCHANGED <<profiles, loc, db, ext>>
    /\ pc = "idle"
    /\ session' = NoSession
    /\ query' = NoQuery
    /\ view' = NoView
    /\ pages' = <<>>
    /\ last' = NoCall
    /\ UNCHANGED <<disk, memo, pc, run, calls>>

\* the data directory found at start: absent, or holding any of the three files,
\* each with the records of 1..MaxBookmarks bookmarks
Records == 1..MaxBookmarks
InitDisks ==
    {rmtree(0)} \cup
    {[dir |-> TRUE, files |-> fs,
      index |-> IF "index.faiss" \in fs
                THEN EncodeAll([i \in 1..ni |-> Title(i)]) ELSE <<>>,
      titles |-> IF "meta.pkl" \in fs THEN [i \in 1..nm |-> Title(i)] ELSE <<>>,
      urls |-> IF "meta.pkl" \in fs THEN [i \in 1..nm |-> Url(i)] ELSE <<>>,
      embeddings |-> IF "embeddings.npy" \in fs
                     THEN EncodeAll([i \in 1..ne |-> Title(i)]) ELSE <<>>] :
        fs \in SUBSET FileNames, ni \in Records, nm \in Records, ne \in Records}

AppInit ==
    /\ disk \in InitDisks
    /\ memo = NoMemo
    /\ session = NoSession
    /\ query = NoQuery
    /\ pc = "idle"
    /\ run = [clicked |-> "none", moved |-> 0, cause |-> "user"]
    /\ view = NoView
    /\ last = NoCall
    /\ calls = <<>>
    /\ pages = <<>>

AppIdle ==
    /\ AppInit
    /\ disk = rmtree(0)

(***************************************************************************)
(* bookmarks.py: get_firefox_bookmarks_from_sqlite                          *)
(***************************************************************************)
\* the snapshot database: readable with the expected schema ("ok"), readable
\* without the table or a column ("no_table"), or not a readable database
\* ("corrupt"). moz_bookmarks rows are (id, title, fk) with id the primary key;
\* moz_places rows are (id, url) with id the primary key. NULL is None.
BookmarkRows(i) ==
    {[id |-> i, title |-> t, fk |-> f] :
        t \in {None, Some(Title(i))},
        f \in {None} \cup {Some(k) : k \in 1..MaxPlaces}}

RECURSIVE Tables(_)
Tables(n) ==
    IF n = 0 THEN {<<>>}
    ELSE LET shorter == Tables(n - 1)
         IN shorter \cup {Append(q, r) : q \in {x \in shorter : Len(x) = n - 1},
                                         r \in BookmarkRows(n)}

RECURSIVE PlacesTable(_, _)
PlacesTable(ids, k) ==
    IF k > MaxPlaces THEN <<>>
    ELSE (IF k \in ids THEN <<[id |-> k, url |-> Url(k)]>> ELSE <<>>)
         \o PlacesTable(ids, k + 1)

Databases ==
    {[status |-> "ok", bookmarks |-> b, places |-> PlacesTable(ids, 1)] :
        b \in Tables(MaxRows), ids \in SUBSET (1..MaxPlaces)}
    \cup {[status |-> st, bookmarks |-> <<>>, places |-> <<>>] :
            st \in {"no_table", "corrupt"}}

\* WHERE moz_bookmarks.title IS NOT NULL
TitleNotNull_dropped(b) == TRUE
TitleNotNull(b) == ~b.title.none

\* ON moz_bookmarks.fk = moz_places.id (a NULL fk equals nothing)
JoinOn(b, p) == ~b.fk.none /\ b.fk.v = p.id

\* the rows the query of lines 82-87 yields for one moz_bookmarks row
RECURSIVE JoinRow(_, _, _)
JoinRow(b, places, k) ==
    IF k > Len(places) THEN <<>>
    ELSE (IF JoinOn(b, places[k]) /\ TitleNotNull(b)
          THEN <<<<b.id, b.title.v, places[k].url>>>> ELSE <<>>)
         \o JoinRow(b, places, k + 1)

RECURSIVE Query(_, _, _)
Query(bookmarks, places, i) ==
    IF i > Len(bookmarks) THEN <<>>
    ELSE JoinRow(bookmarks[i], places, 1) \o Query(bookmarks, places, i + 1)

\* what cursor.execute raises on a database that cannot answer the query
SqliteError(status) ==
    IF status = "no_table" THEN "sqlite3.OperationalError"
    ELSE "sqlite3.DatabaseError"

\* lines 90-91: except sqlite3.OperationalError -> RuntimeError; anything else
\* propagates as it is
ExceptClause(exc) ==
    IF exc = "sqlite3.OperationalError" THEN "RuntimeError" ELSE exc

ExtStartState == [pc |-> "start", open |-> FALSE, rows |-> <<>>, raised |-> "",
                  result |-> <<>>]

\* lines 78-79
ExtConnect ==
    /\ UNCHANGED <<disk, memo, session, query, pc, run, view, last, calls, pages,
                   profiles, loc>>
    /\ ext.pc = "start"
    /\ ext' = [ext EXCEPT !.pc = "try", !.open = TRUE]
    /\ UNCHANGED db

\* lines 81-91
ExtExecute ==
    /\ UNCHANGED <<disk, memo, session, query, pc, run, view, last, calls, pages,
                   profiles, loc>>
    /\ ext.pc = "try"
    /\ ext' = IF db.status = "ok"
              THEN [ext EXCEPT !.pc = "finally",
                               !.rows = Query(db.bookmarks, db.places, 1)]
              ELSE [ext EXCEPT !.pc = "finally",
                               !.raised = ExceptClause(SqliteError(db.status))]
    /\ UNCHANGED db

\* lines 92-95
ExtFinally ==
    /\ UNCHANGED <<disk, memo, session, query, pc, run, view, last, calls, pages,
                   profiles, loc>>
    /\ ext.pc = "finally"
    /\ ext' = [ext EXCEPT
                 !.pc = "done",
                 !.open = FALSE,
                 !.result = IF ext.raised # "" THEN <<>>
                            ELSE [i \in 1..Len(ext.rows) |->
                                    [id |-> ext.rows[i][1],
                                     title |-> ext.rows[i][2],
                                     url |-> ext.rows[i][3]]]]
    /\ UNCHANGED db

ExtIdle == /\ db = [status |-> "ok", bookmarks |-> <<>>, places |-> <<>>]
           /\ ext = ExtStartState

ExtInit == /\ db \in Databases
           /\ ext = ExtStartState

(***************************************************************************)
(* bookmarks.py: find_default_firefox_profile                               *)
(***************************************************************************)
\* a directory under Profiles: whether places.sqlite exists, its size, and what
\* the sqlite_master query finds (the table, no table, or sqlite3.Error)
NoPlaces == [places |-> FALSE, size |-> 0, db |-> "none"]
Sizes == {MinSize - 1, MinSize, MinSize + 1}
ProfileDirs ==
    {NoPlaces} \cup
    {[places |-> TRUE, size |-> sz, db |-> k] :
        sz \in Sizes, k \in {"moz_bookmarks", "no_table", "sqlite3.Error"}}

RECURSIVE SeqsUpTo(_, _)
SeqsUpTo(S, n) ==
    IF n = 0 THEN {<<>>}
    ELSE LET shorter == SeqsUpTo(S, n - 1)
         IN shorter \cup {Append(q, x) : q \in {r \in shorter : Len(r) = n - 1},
                                         x \in S}

LocStartState == [pc |-> "start", i |-> 1, best_profile |-> 0, best_size |-> 0,
                  raised |-> "", result |-> 0]

\* line 34
TooSmall(size) == size < MinSize

\* line 47
Better_no_table_check(has_bookmarks, size, best_size) == size > best_size
Better(has_bookmarks, size, best_size) == has_bookmarks /\ size > best_size

\* lines 21-26
LocStart ==
    /\ UNCHANGED <<disk, memo, session, query, pc, run, view, last, calls, pages,
                   db, ext>>
    /\ loc.pc = "start"
    /\ loc' = IF ~profiles.exists
              THEN [loc EXCEPT !.pc = "done", !.raised = "FileNotFoundError"]
              ELSE [loc EXCEPT !.pc = "loop", !.i = 1, !.best_profile = 0,
                               !.best_size = 0]
    /\ UNCHANGED profiles

\* lines 28-49: one turn of the loop over profiles_dir.iterdir()
LocIter ==
    /\ UNCHANGED <<disk, memo, session, query, pc, run, view, last, calls, pages,
                   db, ext>>
    /\ loc.pc = "loop"
    /\ loc.i <= Len(profiles.dirs)
    /\ LET d == profiles.dirs[loc.i]
       IN loc' =
            IF ~d.places THEN [loc EXCEPT !.i = @ + 1]
            ELSE IF TooSmall(d.size) THEN [loc EXCEPT !.i = @ + 1]
            ELSE IF d.db = "sqlite3.Error" THEN [loc EXCEPT !.i = @ + 1]
            ELSE IF Better(d.db = "moz_bookmarks", d.size, loc.best_size)
            THEN [loc EXCEPT !.i = @ + 1, !.best_profile = loc.i,
                             !.best_size = d.size]
            ELSE [loc EXCEPT !.i = @ + 1]
    /\ UNCHANGED profiles

\* lines 51-54
LocFinish ==
    /\ UNCHANGED <<disk, memo, session, query, pc, run, view, last, calls, pages,
                   db, ext>>
    /\ loc.pc = "loop"
    /\ loc.i > Len(profiles.dirs)
    /\ loc' = IF loc.best_profile = 0
              THEN [loc EXCEPT !.pc = "done", !.raised = "RuntimeError"]
              ELSE [loc EXCEPT !.pc = "done", !.result = loc.best_profile]
    /\ UNCHANGED profiles

LocIdle == /\ profiles = [exists |-> FALSE, dirs |-> <<>>]
           /\ loc = LocStartState

LocInit ==
    /\ profiles \in {[exists |-> FALSE, dirs |-> <<>>]} \cup
                    {[exists |-> TRUE, dirs |-> ds] :
                        ds \in SeqsUpTo(ProfileDirs, MaxProfiles)}
    /\ loc = LocStartState

LocatorInit == LocInit /\ AppIdle /\ ExtIdle
LocatorNext == LocStart \/ LocIter \/ LocFinish
LocatorSpec == LocatorInit /\ [][LocatorNext]_vars

ExtractInit == ExtInit /\ AppIdle /\ LocIdle
ExtractNext == ExtConnect \/ ExtExecute \/ ExtFinally
ExtractSpec == ExtractInit /\ [][ExtractNext]_vars

Init == AppInit /\ LocIdle /\ ExtIdle

Next ==
    \/ StartRun
    \/ TopInit
    \/ Settings
    \/ SearchSkip
    \/ Search
    \/ LoadMore
    \/ VisualizeResults
    \/ NoSearchButton
    \/ VisualizeAll
    \/ Rebuild
    \/ EndRun
    \/ Restart
    \/ NewSession

Spec == Init /\ [][Next]_vars

(***************************************************************************)
(* Properties of app.py (specification Spec)                                *)
(***************************************************************************)

\* C1: right after Rebuild the data directory does not exist and the memoized
\* init_index value and the session state are cleared; the init_index call of the
\* run that follows takes the cold path (it calls the bookmark extraction, never
\* the memoized or the persisted value), and when it completes it has embedded
\* the titles and persisted the three files with what it returns.
C1_RebuildForcesColdBuild ==
    /\ (pc = "top" /\ run.cause = "rebuild") =>
          /\ ~disk.dir /\ disk.files = {}
          /\ ~memo.set
          /\ ~session.has
    /\ (last.valid /\ last.afterRebuild) =>
          /\ last.path = "cold" /\ last.extracted
          /\ ~last.raised =>
                /\ last.encoded /\ last.saved
                /\ disk.dir /\ AllFilesExist(disk)
                /\ disk.titles = last.result.titles
                /\ disk.urls = last.result.urls
                /\ disk.embeddings = last.result.embeddings
                /\ disk.index = last.result.index
                /\ memo = [set |-> TRUE, value |-> last.result]

C1_Witness ==
    /\ last.valid /\ last.afterRebuild /\ last.path = "cold" /\ last.saved
    /\ AllFilesExist(disk) /\ Len(disk.titles) = 2

\* C2: a call of init_index that is not memoized, with a file missing: takes the
\* cold path (extraction, then embedding and persisting of all three files when
\* it completes); with all three files present: returns the persisted index,
\* titles, urls and embeddings and neither extracts nor embeds.
C2_ColdOrWarm ==
    (last.valid /\ last.path # "memo") =>
        IF last.filesAll
        THEN /\ ~last.raised /\ last.path = "warm"
             /\ ~last.extracted /\ ~last.encoded
             /\ last.result = [index |-> disk.index, titles |-> disk.titles,
                               urls |-> disk.urls,
                               embeddings |-> disk.embeddings]
        ELSE /\ last.path = "cold" /\ last.extracted
             /\ ~last.raised => (last.encoded /\ last.saved /\ AllFilesExist(disk))

\* C4: when the process starts with all three files present, the second call of
\* init_index returns the first call's result from the memoized state, and
\* neither call embeds the titles.
C4_WarmTwice ==
    (Len(calls) = 2 /\ calls[1].filesAll) =>
        /\ ~calls[1].raised /\ calls[1].path = "warm"
        /\ calls[2].path = "memo"
        /\ calls[2].result = calls[1].result
        /\ ~calls[1].encoded /\ ~calls[2].encoded

\* C3: in a streak of Load More requests each run displays exactly 10 results
\* more than the run before, and no run displays more results than it fetched.
C3_LoadMoreAddsTen ==
    /\ \A i \in 1..(Len(pages) - 1) : pages[i + 1] = pages[i] + 10
    /\ Len(view.shown) <= view.fetched
    /\ (pages # <<>> /\ "search" \in view.sections) =>
          pages[Len(pages)] = Len(view.shown)

C3_Witness ==
    /\ Len(pages) = 3 /\ Len(view.shown) = 30 /\ view.fetched = 40

\* C7: a run whose init_index call raised shows the error and is over: it has
\* rendered no section and no widget and displayed no result; and no section
\* after the initialization runs without an initialized index.
C7_InitFailureHalts ==
    /\ (last.valid /\ last.raised) =>
          /\ view.error
          /\ pc = "idle"
          /\ view.sections = {} /\ view.widgets = {} /\ view.shown = <<>>
    /\ view.error => (last.valid /\ last.raised)
    /\ pc \in {"settings", "search", "more", "tail"} => memo.set
    /\ view.sections # {} => memo.set

C7_Witness ==
    /\ last.valid /\ last.raised /\ view.error /\ pc = "idle"
    /\ query # NoQuery

\* C8 (as stated): a snapshot is used as a warm cache only when all components
\* exist and agree in length; one with a component missing or with disagreeing
\* lengths is treated as absent and a cold build is performed.
C8_LengthsChecked ==
    (last.valid /\ last.path # "memo") =>
        /\ (last.path = "warm" /\ ~last.raised) => (last.filesAll /\ last.agree)
        /\ (~last.filesAll \/ ~last.agree) => last.path = "cold"

\* C8 (amended): the snapshot is taken as present exactly when the three files
\* exist: init_index takes the cold path if and only if a file is missing, and
\* the lengths of the components play no part.
C8_ColdIffFileMissing ==
    (last.valid /\ last.path # "memo") =>
        /\ (last.path = "cold") <=> ~last.filesAll
        /\ last.path = "cold" => last.extracted
        /\ last.path # "cold" => (~last.extracted /\ ~last.saved)

C8_Witness ==
    /\ last.valid /\ last.filesAll /\ ~last.agree /\ last.path = "warm"
    /\ ~last.extracted

\* C10: every displayed result refers to an index 0 <= idx < len(titles): no
\* padding label of the search is rendered as a bookmark.
C10_NoPaddingDisplayed ==
    \A i \in 1..Len(view.shown) :
        /\ view.shown[i].idx >= 0
        /\ view.shown[i].idx < Len(memo.value.titles)

(***************************************************************************)
(* Properties of find_default_firefox_profile (specification LocatorSpec)   *)
(***************************************************************************)
Qualifies(d) == d.places /\ d.size >= 100 * 1024 /\ d.db = "moz_bookmarks"

\* C5: when the loop over the profile directories is done, the function returns a
\* directory exactly when some directory qualifies (places.sqlite of at least
\* 100 KB exposing moz_bookmarks); the one returned qualifies and no qualifying
\* directory has a larger file; a directory failing a filter is never returned.
C5_LargestQualifying ==
    (loc.pc = "done" /\ profiles.exists) =>
        LET good == {j \in 1..Len(profiles.dirs) : Qualifies(profiles.dirs[j])}
        IN IF good = {}
           THEN loc.raised = "RuntimeError" /\ loc.result = 0
           ELSE /\ loc.raised = ""
                /\ loc.result \in good
                /\ \A j \in good :
                     profiles.dirs[j].size <= profiles.dirs[loc.result].size

C5_Witness ==
    /\ loc.pc = "done" /\ Len(profiles.dirs) = 3 /\ loc.result = 2
    /\ Qualifies(profiles.dirs[1])
    /\ profiles.dirs[1].size < profiles.dirs[2].size
    /\ ~Qualifies(profiles.dirs[3])
    /\ profiles.dirs[3].places
    /\ profiles.dirs[3].size >= profiles.dirs[2].size

(***************************************************************************)
(* Properties of get_firefox_bookmarks_from_sqlite (ExtractSpec)            *)
(***************************************************************************)
\* C6: on a database with the expected schema the function returns, for every
\* moz_bookmarks row with a non-null title whose fk is the id of a moz_places
\* row, exactly one record with the row's id and title and that place's url, and
\* no record for any other row (a null title among them).
C6_OneRecordPerTitledRow ==
    (ext.pc = "done" /\ db.status = "ok") =>
        /\ ext.raised = ""
        /\ \A j \in 1..Len(ext.result) :
             \E i \in 1..Len(db.bookmarks) : db.bookmarks[i].id = ext.result[j].id
        /\ \A i \in 1..Len(db.bookmarks) :
             LET r == db.bookmarks[i]
                 recs == {j \in 1..Len(ext.result) : ext.result[j].id = r.id}
                 place == {k \in 1..Len(db.places) :
                             ~r.fk.none /\ db.places[k].id = r.fk.v}
             IN IF ~r.title.none /\ place # {}
                THEN /\ Cardinality(recs) = 1
                     /\ \A j \in recs : \A k \in place :
                          /\ ext.result[j].title = r.title.v
                          /\ ext.result[j].url = db.places[k].url
                ELSE recs = {}

C6_Witness ==
    /\ ext.pc = "done" /\ db.status = "ok" /\ Len(db.bookmarks) = 2
    /\ db.bookmarks[1].title.none /\ ~db.bookmarks[1].fk.none
    /\ ~db.bookmarks[2].title.none
    /\ Len(ext.result) = 1 /\ ext.result[1].id = 2
    /\ Len(db.places) = 1

\* C9: on a database that cannot answer the query (table or column missing,
\* corrupted file) the function fails with a RuntimeError, and the connection is
\* closed.
C9_RuntimeErrorAndClosed ==
    (ext.pc = "done" /\ db.status # "ok") =>
        /\ ext.raised = "RuntimeError"
        /\ ~ext.open

====
